---------------------------- MODULE Spec2Model ----------------------------
(***************************************************************************)
(* Model of fibonacci.c (pysys-examples/fibonacci/utilities/src): main()   *)
(* reads N from argv[1], allocates a buffer of N longs, fills it with the  *)
(* Fibonacci sequence and prints it.                                       *)
(*                                                                         *)
(* One action per statement of main().  A long is modelled by its bit      *)
(* pattern, a little-endian vector of LongLimbs limbs of 16 bits (4 limbs  *)
(* = the 64-bit long of an LP64 build), so that addition wraps at 2^64 the *)
(* way the machine addition does and "%lu" prints the pattern as an        *)
(* unsigned decimal.  Text (argv, the output lines) is a sequence of       *)
(* one-character strings.                                                  *)
(*                                                                         *)
(* Inputs: the argument that is parsed is the decimal text of 0..MaxN or a *)
(* non-numeric word; negative numbers are outside the program's domain     *)
(* (line 8: "don't specify an argument less than 0!!").  malloc is taken   *)
(* to succeed for these sizes (at most MaxN longs).                        *)
(*                                                                         *)
(* Undefined behaviour: a store past the end of the allocated block (the   *)
(* seed stores when N < 2) either lands outside the buffer and the run     *)
(* continues, or kills the process (pc = "crashed").                       *)
(***************************************************************************)
EXTENDS Integers, Sequences, FiniteSets, TLC

\* Largest N whose decimal text is an input.
MaxN == 96
\* Largest number of command-line arguments (argc - 1).
MaxArgs == 3

\* sizeof(long) in 16-bit limbs.
LongLimbs == 4
LimbBase == 256 * 256

VARIABLES
  argv,        \* the command line, argv[1] is the program name (C's argv[0])
  pc,          \* the statement main() is at
  max_index,   \* int max_index
  i,           \* long i
  fib,         \* the block malloc returned: index -> long, Indet where never stored
  allocs,      \* number of malloc calls made
  acc,         \* every access to fib[...] made so far, in order
  out,         \* lines written to stdout
  err,         \* lines written to stderr
  status       \* <<>> while running, <<s>> once main has returned s

vars == <<argv, pc, max_index, i, fib, allocs, acc, out, err, status>>

---------------------------------------------------------------------------
\* Text

DigitChars == <<"0", "1", "2", "3", "4", "5", "6", "7", "8", "9">>

IsDigit(c) == \E d \in 0..9 : DigitChars[d + 1] = c

DigitVal(c) == CHOOSE d \in 0..9 : DigitChars[d + 1] = c

RECURSIVE DecimalText(_)
\* The decimal digits of n >= 0, no leading zeros.
DecimalText(n) ==
  IF n < 10 THEN <<DigitChars[n + 1]>>
  ELSE Append(DecimalText(n \div 10), DigitChars[(n % 10) + 1])

RECURSIVE AtoiFrom(_, _, _)
AtoiFrom(s, k, n) ==
  IF k > Len(s) \/ ~IsDigit(s[k]) THEN n
  ELSE AtoiFrom(s, k + 1, n * 10 + DigitVal(s[k]))

\* atoi: the value of the leading decimal digits, 0 when there are none.
Atoi(s) == AtoiFrom(s, 1, 0)

\* "%d" of the long i: its decimal text (0 <= i <= INT_MAX here).
FmtD(n) == DecimalText(n)

---------------------------------------------------------------------------
\* long arithmetic

Limbs == 1..LongLimbs

\* The long with value n, 0 <= n < LimbBase.
LongOf(n) == [k \in Limbs |-> IF k = 1 THEN n ELSE 0]

RECURSIVE AddFrom(_, _, _, _)
\* The limbs k..LongLimbs of a + b, c the carry into limb k; the carry out of
\* the top limb is dropped.
AddFrom(a, b, k, c) ==
  IF k > LongLimbs THEN <<>>
  ELSE <<(a[k] + b[k] + c) % LimbBase>>
         \o AddFrom(a, b, k + 1, (a[k] + b[k] + c) \div LimbBase)

RECURSIVE CarryFrom(_, _, _, _)
\* The carry out of the top limb of a + b, c the carry into limb k.
CarryFrom(a, b, k, c) ==
  IF k > LongLimbs THEN c
  ELSE CarryFrom(a, b, k + 1, (a[k] + b[k] + c) \div LimbBase)

\* Variant of AddLong: the sum stops at the largest value instead of wrapping.
AddLong_Saturating(a, b) ==
  IF CarryFrom(a, b, 1, 0) = 0 THEN AddFrom(a, b, 1, 0)
  ELSE [k \in Limbs |-> LimbBase - 1]

\* a + b in a long: the sum modulo 2^(16 * LongLimbs).
AddLong(a, b) == AddFrom(a, b, 1, 0)

RECURSIVE DivTenFrom(_, _, _)
\* Long division of v by ten, from the top limb down: the limbs k..1 of the
\* quotient followed by the remainder, r the remainder carried into limb k.
\* (The partial dividend is bound through a one-element set, which computes
\* it once.)
DivTenFrom(v, k, r) ==
  IF k = 0 THEN <<r>>
  ELSE CHOOSE res \in
         {<<cur \div 10>> \o DivTenFrom(v, k - 1, cur % 10)
            : cur \in {r * LimbBase + v[k]}} : TRUE

RECURSIVE Reverse(_)
Reverse(s) == IF s = <<>> THEN <<>> ELSE Append(Reverse(Tail(s)), Head(s))

RECURSIVE FmtLuDigits(_)
\* The decimal digits of the unsigned number v, last digit first.  (The
\* division result is bound through a one-element set, which computes it
\* once.)
FmtLuDigits(v) ==
  CHOOSE ds \in
    {IF SubSeq(qr, 1, LongLimbs) = LongOf(0)
     THEN <<DigitChars[qr[LongLimbs + 1] + 1]>>
     ELSE <<DigitChars[qr[LongLimbs + 1] + 1]>>
            \o FmtLuDigits(Reverse(SubSeq(qr, 1, LongLimbs)))
       : qr \in {DivTenFrom(v, LongLimbs, 0)}} : TRUE

\* "%lu" of a long: the bit pattern read as an unsigned number, in decimal.
FmtLu(v) == Reverse(FmtLuDigits(v))

---------------------------------------------------------------------------
\* The buffer

\* The content of an element no store has reached.
Indet == <<>>

InBounds(k) == k \in DOMAIN fib

\* The record of one evaluation of fib[k] at source line ln: op is "r" or
\* "w", init tells whether the element held a stored value at that moment.
Access(op, k, ln) ==
  [op |-> op, idx |-> k, line |-> ln, init |-> InBounds(k) /\ fib[k] # Indet]

---------------------------------------------------------------------------
\* Inputs

ProgName == <<"f", "i", "b">>

\* Texts given as the only argument.
Args == {DecimalText(n) : n \in 0..MaxN} \cup {<<"x">>, <<"0", "7">>}

\* Texts given when there are several arguments.
FewArgs == {<<"0">>, <<"5">>, <<"x">>}

RECURSIVE ArgLists(_)
\* The lists of n arguments over FewArgs.
ArgLists(n) ==
  IF n = 0 THEN {<<>>}
  ELSE {Append(l, a) : l \in ArgLists(n - 1), a \in FewArgs}

CommandLines ==
  {<<ProgName>>} \cup {<<ProgName, a>> : a \in Args}
    \cup UNION {{<<ProgName>> \o l : l \in ArgLists(n)} : n \in 2..MaxArgs}

argc == Len(argv)

Init ==
  /\ argv \in CommandLines
  /\ pc = "if_argc"
  /\ max_index = 0
  /\ i = 0
  /\ fib = <<>>
  /\ allocs = 0
  /\ acc = <<>>
  /\ out = <<>>
  /\ err = <<>>
  /\ status = <<>>

---------------------------------------------------------------------------
\* Statements of main()

\* Variant of line 9: if (argc >= 2)
IfArgc_AtLeastTwo ==
  /\ pc = "if_argc"
  /\ pc' = IF argc >= 2 THEN "atoi" ELSE "usage"
  /\ UNCHANGED <<argv, max_index, i, fib, allocs, acc, out, err, status>>

\* line 9: if (argc == 2)
IfArgc ==
  /\ pc = "if_argc"
  /\ pc' = IF argc = 2 THEN "atoi" ELSE "usage"
  /\ UNCHANGED <<argv, max_index, i, fib, allocs, acc, out, err, status>>

\* line 11: max_index = atoi(argv[1]);
ParseArg ==
  /\ pc = "atoi"
  /\ max_index' = Atoi(argv[2])
  /\ pc' = "malloc"
  /\ UNCHANGED <<argv, i, fib, allocs, acc, out, err, status>>

\* line 12: fib = (long *)malloc(max_index*sizeof(long));
Malloc ==
  /\ pc = "malloc"
  /\ fib' = [k \in 0..(max_index - 1) |-> Indet]
  /\ allocs' = allocs + 1
  /\ pc' = "seed0"
  /\ UNCHANGED <<argv, max_index, i, acc, out, err, status>>

\* A seed store fib[k] = v at line ln, then on to statement next.  Inside the
\* block the element is set.  Past its end the behaviour is undefined: the
\* store lands outside the buffer and the run goes on, or the process dies.
SeedStore(k, v, ln, next) ==
  /\ acc' = Append(acc, Access("w", k, ln))
  /\ \/ /\ InBounds(k)
        /\ fib' = [fib EXCEPT ![k] = v]
        /\ pc' = next
     \/ /\ ~InBounds(k)
        /\ fib' = fib
        /\ pc' = next
     \/ /\ ~InBounds(k)
        /\ fib' = fib
        /\ pc' = "crashed"
  /\ UNCHANGED <<argv, max_index, i, allocs, out, err, status>>

\* Variant of line 15: fib[0] = 1;
SeedZero_StartsAtOne ==
  /\ pc = "seed0"
  /\ SeedStore(0, LongOf(1), 15, "seed1")

\* line 15: fib[0] = 0;
SeedZero ==
  /\ pc = "seed0"
  /\ SeedStore(0, LongOf(0), 15, "seed1")

\* Variant of line 16: if (max_index >= 2) fib[1] = 1;
SeedOne_Guarded ==
  /\ pc = "seed1"
  /\ IF max_index >= 2
     THEN SeedStore(1, LongOf(1), 16, "fill_init")
     ELSE /\ pc' = "fill_init"
          /\ UNCHANGED <<argv, max_index, i, fib, allocs, acc, out, err, status>>

\* line 16: fib[1] = 1;
SeedOne ==
  /\ pc = "seed1"
  /\ SeedStore(1, LongOf(1), 16, "fill_init")

\* line 17: i=2
FillInit ==
  /\ pc = "fill_init"
  /\ i' = 2
  /\ pc' = "fill_test"
  /\ UNCHANGED <<argv, max_index, fib, allocs, acc, out, err, status>>

\* Variant of line 17: i<=max_index
FillTest_Inclusive ==
  /\ pc = "fill_test"
  /\ pc' = IF i <= max_index THEN "fill_diag" ELSE "print_init"
  /\ UNCHANGED <<argv, max_index, i, fib, allocs, acc, out, err, status>>

\* line 17: i<max_index
FillTest ==
  /\ pc = "fill_test"
  /\ pc' = IF i < max_index THEN "fill_diag" ELSE "print_init"
  /\ UNCHANGED <<argv, max_index, i, fib, allocs, acc, out, err, status>>

\* Variant of line 18: fprintf(stdout, "Calculating index %d\n", i);
FillDiag_ToStdout ==
  /\ pc = "fill_diag"
  /\ out' = Append(out, <<"C">> \o FmtD(i))
  /\ pc' = "fill_store"
  /\ UNCHANGED <<argv, max_index, i, fib, allocs, acc, err, status>>

\* line 18: fprintf(stderr, "Calculating index %d\n", i);
FillDiag ==
  /\ pc = "fill_diag"
  /\ err' = Append(err, [fmt |-> "Calculating index %d", arg |-> FmtD(i)])
  /\ pc' = "fill_store"
  /\ UNCHANGED <<argv, max_index, i, fib, allocs, acc, out, status>>

\* Variant of line 19: fib[i] = fib[i-1] + fib[i-1];
FillStore_WrongOperand ==
  /\ pc = "fill_store"
  /\ acc' = acc \o <<Access("r", i - 1, 19), Access("r", i - 1, 19),
                     Access("w", i, 19)>>
  /\ fib' = [fib EXCEPT ![i] = AddLong(fib[i - 1], fib[i - 1])]
  /\ pc' = "fill_incr"
  /\ UNCHANGED <<argv, max_index, i, allocs, out, err, status>>

\* Variant of line 19: the element is printed as soon as it is computed.
FillStore_Streaming ==
  /\ pc = "fill_store"
  /\ acc' = acc \o <<Access("r", i - 1, 19), Access("r", i - 2, 19),
                     Access("w", i, 19)>>
  /\ fib' = [fib EXCEPT ![i] = AddLong(fib[i - 1], fib[i - 2])]
  /\ out' = Append(out, FmtLu(AddLong(fib[i - 1], fib[i - 2])))
  /\ pc' = "fill_incr"
  /\ UNCHANGED <<argv, max_index, i, allocs, err, status>>

\* line 19: fib[i] = fib[i-1] + fib[i-2];
FillStore ==
  /\ pc = "fill_store"
  /\ acc' = acc \o <<Access("r", i - 1, 19), Access("r", i - 2, 19),
                     Access("w", i, 19)>>
  /\ fib' = [fib EXCEPT ![i] = AddLong(fib[i - 1], fib[i - 2])]
  /\ pc' = "fill_incr"
  /\ UNCHANGED <<argv, max_index, i, allocs, out, err, status>>

\* line 17: i++
FillIncr ==
  /\ pc = "fill_incr"
  /\ i' = i + 1
  /\ pc' = "fill_test"
  /\ UNCHANGED <<argv, max_index, fib, allocs, acc, out, err, status>>

\* Variant of line 23: i=1
PrintInit_FromOne ==
  /\ pc = "print_init"
  /\ i' = 1
  /\ pc' = "print_test"
  /\ UNCHANGED <<argv, max_index, fib, allocs, acc, out, err, status>>

\* line 23: i=0
PrintInit ==
  /\ pc = "print_init"
  /\ i' = 0
  /\ pc' = "print_test"
  /\ UNCHANGED <<argv, max_index, fib, allocs, acc, out, err, status>>

\* line 23: i<max_index
PrintTest ==
  /\ pc = "print_test"
  /\ pc' = IF i < max_index THEN "print_line" ELSE "return"
  /\ UNCHANGED <<argv, max_index, i, fib, allocs, acc, out, err, status>>

\* line 24: fprintf(stdout, "%lu\n", fib[i]);
PrintLine ==
  /\ pc = "print_line"
  /\ acc' = Append(acc, Access("r", i, 24))
  /\ out' = Append(out, FmtLu(fib[i]))
  /\ pc' = "print_incr"
  /\ UNCHANGED <<argv, max_index, i, fib, allocs, err, status>>

\* line 23: i++
PrintIncr ==
  /\ pc = "print_incr"
  /\ i' = i + 1
  /\ pc' = "print_test"
  /\ UNCHANGED <<argv, max_index, fib, allocs, acc, out, err, status>>

\* line 29: fprintf(stderr, "Usage: %s <index>\n", argv[0]);
Usage ==
  /\ pc = "usage"
  /\ err' = Append(err, [fmt |-> "Usage: %s <index>", arg |-> argv[1]])
  /\ pc' = "return"
  /\ UNCHANGED <<argv, max_index, i, fib, allocs, acc, out, status>>

\* Variant of line 32: a non-zero status after the usage message.
Return_UsageFails ==
  /\ pc = "return"
  /\ status' = IF argc = 2 THEN <<0>> ELSE <<1>>
  /\ pc' = "done"
  /\ UNCHANGED <<argv, max_index, i, fib, allocs, acc, out, err>>

\* line 32: return 0;
Return ==
  /\ pc = "return"
  /\ status' = <<0>>
  /\ pc' = "done"
  /\ UNCHANGED <<argv, max_index, i, fib, allocs, acc, out, err>>

Next ==
  \/ IfArgc
  \/ ParseArg
  \/ Malloc
  \/ SeedZero
  \/ SeedOne
  \/ FillInit
  \/ FillTest
  \/ FillDiag
  \/ FillStore
  \/ FillIncr
  \/ PrintInit
  \/ PrintTest
  \/ PrintLine
  \/ PrintIncr
  \/ Usage
  \/ Return

Spec == Init /\ [][Next]_vars

\* The statements run one after another until main returns: a step that can
\* be taken is taken.
FairSpec == Spec /\ WF_vars(Next)

---------------------------------------------------------------------------
\* Decimal arithmetic on output text, used to state what the output lines
\* must be without going through the long arithmetic above.

\* The p-th digit of s from the right, 0 beyond its length.
DigitAt(s, p) == IF p > Len(s) THEN 0 ELSE DigitVal(s[Len(s) - p + 1])

Longest(s, t) == IF Len(s) > Len(t) THEN Len(s) ELSE Len(t)

RECURSIVE DecAddFrom(_, _, _, _)
\* The digits of s + t from position p (counted from the right) upwards,
\* c the carry into position p.
DecAddFrom(s, t, p, c) ==
  IF p > Longest(s, t) THEN (IF c = 0 THEN <<>> ELSE <<DigitChars[c + 1]>>)
  ELSE LET d == DigitAt(s, p) + DigitAt(t, p) + c
       IN  Append(DecAddFrom(s, t, p + 1, d \div 10), DigitChars[(d % 10) + 1])

\* s + t, exact, in decimal.
DecAdd(s, t) == DecAddFrom(s, t, 1, 0)

\* s < t, for texts without leading zeros.
DecLess(s, t) ==
  \/ Len(s) < Len(t)
  \/ /\ Len(s) = Len(t)
     /\ \E p \in 1..Len(s) :
          /\ DigitVal(s[p]) < DigitVal(t[p])
          /\ \A q \in 1..(p - 1) : s[q] = t[q]

RECURSIVE StripZeros(_)
StripZeros(s) ==
  IF Len(s) > 1 /\ s[1] = "0" THEN StripZeros(Tail(s)) ELSE s

RECURSIVE DecSubFrom(_, _, _, _)
\* The digits of s - t from position p upwards, b the borrow out of p - 1.
DecSubFrom(s, t, p, b) ==
  IF p > Len(s) THEN <<>>
  ELSE LET d == DigitAt(s, p) - DigitAt(t, p) - b
       IN  Append(DecSubFrom(s, t, p + 1, IF d < 0 THEN 1 ELSE 0),
                  DigitChars[((d + 10) % 10) + 1])

\* s - t, for s >= t.
DecSub(s, t) == StripZeros(DecSubFrom(s, t, 1, 0))

RECURSIVE DecShift(_, _)
\* s doubled n times.
DecShift(s, n) == IF n = 0 \/ Len(s) = 0 THEN s ELSE DecShift(DecAdd(s, s), n - 1)

\* 2^w in decimal, w the width of a long in bits.
Modulus == DecShift(<<"1">>, 16 * LongLimbs)

\* s mod 2^w, for s < 2^(w+1).
DecWrap(s) == IF DecLess(s, Modulus) THEN s ELSE DecSub(s, Modulus)

---------------------------------------------------------------------------
\* Vocabulary of the properties

\* The value of the argument, when there is exactly one.
N == Atoi(argv[2])

\* The run has exactly one argument and its value is at least n.
OneArgAtLeast(n) == argc = 2 /\ N >= n

Done == pc = "done"

CalcLine(k) == [fmt |-> "Calculating index %d", arg |-> FmtD(k)]

UsageLine == [fmt |-> "Usage: %s <index>", arg |-> argv[1]]

\* The accesses made by the print loop, in order.
PrintReads == SelectSeq(acc, LAMBDA e : e.line = 24)

Last(s) == s[Len(s)]

---------------------------------------------------------------------------
\* Properties

\* C1, as claimed: run with one argument N >= 2, every stdout line i with
\* 2 <= i <= N-1 (0-indexed) is the sum of lines i-1 and i-2.
C1_LineIsExactSum ==
  (Done /\ OneArgAtLeast(2)) =>
    \A k \in 2..(N - 1) :
      /\ k + 1 <= Len(out)
      /\ out[k + 1] = DecAdd(out[k], out[k - 1])

\* C1, amended: run with one argument N >= 2, every stdout line i with
\* 2 <= i <= N-1 is the sum of lines i-1 and i-2 modulo 2^w, w the width of
\* a long in bits.
C1_LineIsSumModWidth ==
  (Done /\ OneArgAtLeast(2)) =>
    \A k \in 2..(N - 1) :
      /\ k + 1 <= Len(out)
      /\ out[k + 1] = DecWrap(DecAdd(out[k], out[k - 1]))

\* C1, its case: a finished run in which the sum of two printed lines
\* reached 2^w.
C1_Witness ==
  /\ Done /\ OneArgAtLeast(3)
  /\ Len(out) = N
  /\ \E k \in 2..(N - 1) : ~DecLess(DecAdd(out[k], out[k - 1]), Modulus)

\* C2: run with one argument N >= 2, stdout line 0 is "0" and line 1 is "1":
\* whenever they have been written, and both have been once main returned.
C2_SeedLines ==
  OneArgAtLeast(2) =>
    /\ Len(out) >= 1 => out[1] = <<"0">>
    /\ Len(out) >= 2 => out[2] = <<"1">>
    /\ Done => Len(out) >= 2

\* C2, its case: a finished run with N >= 2 and both seed lines printed.
C2_Witness == Done /\ OneArgAtLeast(2) /\ Len(out) >= 2 /\ max_index = N

\* C3: run with one argument N >= 2, never more than N lines are on stdout,
\* and when main has returned there are exactly N: the print loop read the
\* elements 0, 1, ..., N-1 in this order, each once, and line k is the "%lu"
\* text of element k.
C3_ExactlyNLines ==
  OneArgAtLeast(2) =>
    /\ Len(out) <= N
    /\ Done =>
         /\ Len(out) = N
         /\ Len(PrintReads) = N
         /\ \A k \in 1..N : PrintReads[k].idx = k - 1 /\ PrintReads[k].op = "r"
         /\ \A k \in 1..N : out[k] = FmtLu(fib[k - 1])

\* C3, its case: the longest run has finished with its N lines.
C3_Witness == Done /\ OneArgAtLeast(2) /\ Len(out) = N /\ N = MaxN

\* C4, the lines: run with one argument N >= 2, stderr holds only
\* "Calculating index" lines, for 2, 3, ... in increasing order, never more
\* than N-2 of them and exactly those for 2..N-1 once main has returned.
C4_DiagLines ==
  OneArgAtLeast(2) =>
    /\ Len(err) <= N - 2
    /\ \A k \in 1..Len(err) : err[k] = CalcLine(k + 1)
    /\ Done => Len(err) = N - 2

\* C4, the order: a step that stores a computed element i (line 19) is taken
\* when the last line on stderr is already the one for index i.
C4_DiagBeforeStore ==
  (/\ Len(acc') > Len(acc)
   /\ Last(acc').op = "w"
   /\ Last(acc').line = 19)
    => /\ err' = err
       /\ Len(err) > 0
       /\ Last(err) = CalcLine(Last(acc').idx)

\* C4: run with one argument N >= 2, exactly N-2 "Calculating index" lines
\* go to stderr, for i = 2..N-1 in increasing order, each before element i is
\* stored.
C4_Diagnostics == [](C4_DiagLines) /\ [][C4_DiagBeforeStore]_vars

\* C4, its case: a finished run with N >= 3, its N-2 diagnostic lines written
\* and computed elements stored.
C4_Witness ==
  /\ Done /\ OneArgAtLeast(3)
  /\ Len(err) = N - 2
  /\ \E k \in 1..Len(acc) : acc[k].op = "w" /\ acc[k].line = 19

\* C5: run with zero or with more than one argument, stdout stays empty, no
\* "Calculating index" line is written, the buffer is neither allocated nor
\* accessed, and stderr holds exactly one line, the usage line, once main has
\* returned (none or that one before).
C5_UsageOnly ==
  argc # 2 =>
    /\ out = <<>>
    /\ allocs = 0
    /\ acc = <<>>
    /\ fib = <<>>
    /\ err \in {<<>>, <<UsageLine>>}
    /\ Done => err = <<UsageLine>>

\* C5, its case: a run with several arguments has returned.
C5_Witness == Done /\ argc > 2 /\ err = <<UsageLine>>

\* C6: on the computation path for N >= 2 and on the usage path main
\* returns, and no run returns a status other than 0.
C6_ReturnsZero ==
  /\ [](status \in {<<>>, <<0>>})
  /\ [](Done <=> status # <<>>)
  /\ (pc = "if_argc" /\ (argc # 2 \/ OneArgAtLeast(2)))
       ~> (Done /\ status = <<0>>)

\* C6, its case: the usage path has returned 0.
C6_Witness == Done /\ argc # 2 /\ status = <<0>> /\ err = <<UsageLine>>

\* C7: nothing detects overflow.  Run with one argument N >= 2, once main has
\* returned every element i >= 2 holds the sum of elements i-1 and i-2 modulo
\* 2^w (the three read as the unsigned numbers "%lu" prints), the run has
\* returned 0 with all N stdout lines and N-2 diagnostic lines, and no other
\* line on stderr.
C7_SilentWrap ==
  (Done /\ OneArgAtLeast(2)) =>
    /\ \A k \in 2..(N - 1) :
         FmtLu(fib[k]) = DecWrap(DecAdd(FmtLu(fib[k - 1]), FmtLu(fib[k - 2])))
    /\ status = <<0>>
    /\ Len(out) = N
    /\ Len(err) = N - 2
    /\ \A k \in 1..Len(err) : err[k].fmt = "Calculating index %d"

\* C7, its case: a finished run in which a sum of two elements did not fit
\* in w bits, and the element stored is smaller than its predecessor.
C7_Witness ==
  /\ Done /\ OneArgAtLeast(3)
  /\ Len(out) = N
  /\ \E k \in 2..(N - 1) :
       /\ ~DecLess(DecAdd(FmtLu(fib[k - 1]), FmtLu(fib[k - 2])), Modulus)
       /\ DecLess(FmtLu(fib[k]), FmtLu(fib[k - 1]))

\* C8, the phases as a step property: once a line is on stdout no step
\* allocates, stores into the buffer, changes an element or writes to stderr;
\* and every line put on stdout is the "%lu" text of the next element as the
\* buffer holds it.
C8_FillThenPrint ==
  /\ out # <<>> =>
       /\ fib' = fib
       /\ allocs' = allocs
       /\ err' = err
       /\ \A k \in (Len(acc) + 1)..Len(acc') : acc'[k].op = "r"
  /\ out' # out =>
       /\ pc \notin {"malloc", "seed0", "seed1", "fill_init", "fill_test",
                     "fill_diag", "fill_store", "fill_incr"}
       /\ out' = Append(out, FmtLu(fib[Len(out)]))

\* C8: the run is phased allocate -> fill -> print: one allocation at most,
\* every buffer store and every "Calculating index" line before the first
\* stdout line, no element changed once printing has started.
C8_Phases ==
  /\ [](allocs <= 1)
  /\ [](out # <<>> => allocs = 1)
  /\ []((argc = 2 /\ pc \notin {"if_argc", "atoi", "malloc"}) => allocs = 1)
  /\ [][C8_FillThenPrint]_vars

\* C8, its case: printing is under way after a fill pass that stored
\* computed elements.
C8_Witness ==
  /\ pc = "print_incr"
  /\ Len(out) >= 3
  /\ Len(err) >= 1
  /\ allocs = 1

\* The statements after line 16.
AfterSeeds ==
  {"fill_init", "fill_test", "fill_diag", "fill_store", "fill_incr",
   "print_init", "print_test", "print_line", "print_incr", "return", "done"}

\* C9: with one argument, whatever N is, a run that has passed line 16 has
\* stored into fib[0] at line 15 and then into fib[1] at line 16; so with
\* N = 1 the store at index 1, and with N = 0 both stores, are at an index
\* >= N, outside the allocated block.
C9_SeedsUnconditional ==
  (argc = 2 /\ pc \in AfterSeeds) =>
    /\ Len(acc) >= 2
    /\ acc[1].op = "w" /\ acc[1].idx = 0 /\ acc[1].line = 15
    /\ acc[2].op = "w" /\ acc[2].idx = 1 /\ acc[2].line = 16
    /\ N <= 1 => acc[2].idx >= N /\ ~InBounds(acc[2].idx)
    /\ N = 0 => acc[1].idx >= N /\ ~InBounds(acc[1].idx)

\* C9, its case: with N = 0 both seed stores were made, both outside the
\* empty block.
C9_Witness ==
  /\ argc = 2 /\ N = 0 /\ max_index = 0
  /\ pc \in AfterSeeds
  /\ Len(acc) = 2
  /\ \A k \in 1..2 : acc[k].op = "w" /\ acc[k].idx >= max_index

\* C10: run with one argument N >= 2, the allocated block is 0..N-1, every
\* access to the buffer is at an index of the block, and every read finds a
\* value stored earlier.
C10_AccessesInBounds ==
  (OneArgAtLeast(2) /\ allocs > 0) =>
    /\ DOMAIN fib = 0..(N - 1)
    /\ \A k \in 1..Len(acc) :
         /\ acc[k].idx \in 0..(N - 1)
         /\ acc[k].op = "r" => acc[k].init

\* C10, its case: a finished run that made every kind of access: both seed stores, the
\* reads and the store of the fill loop, the reads of the print loop.
C10_Witness ==
  /\ Done /\ OneArgAtLeast(3)
  /\ \A ln \in {15, 16, 19, 24} : \E k \in 1..Len(acc) : acc[k].line = ln
  /\ \E k \in 1..Len(acc) : acc[k].op = "r" /\ acc[k].line = 19

===========================================================================
